---- MODULE Spec2Model ----
(***************************************************************************)
(* A model of brewer_core (src/brewer_core/src/lib.rs): the install /      *)
(* uninstall orchestrator of Brew and the state aggregation of Brew::state. *)
(*                                                                         *)
(* Strings that the code takes apart or puts together (registry text,      *)
(* identifiers, "tap/name" keys) are sequences of one-character strings;   *)
(* Str("a") is written <<"a">>.  Fixed labels (error messages, flags) are   *)
(* TLA+ strings.                                                           *)
(***************************************************************************)
EXTENDS Integers, Sequences, FiniteSets, TLC

VARIABLES
    pc,        \* position of the running request: "idle", a step label, "done"
    op,        \* the entry point being run ("none" when idle)
    ret,       \* the request's anyhow::Result once pc = "done"
    kegs,      \* install/uninstall: the batch passed in
    formulae,  \* install/uninstall: formula partition of split_kegs
    casks,     \* install/uninstall: cask partition of split_kegs
    calls,     \* package-manager processes run by this request, in order
    fetched,   \* the latest answer of the outside world (response body, listing)
    executables,  \* state: the executable registry's store
    analytics, \* state: the popularity store
    base,      \* state: the result of eval_all (base stores)
    all,       \* state / installed: the enriched catalog
    receipts,  \* installed: the raw receipts store of the scan
    versions,  \* installed: the raw cask versions store of the scan
    installed, \* installed: the installed stores built so far
    io         \* file-system accesses made by this request

orchVars == <<kegs, formulae, casks, calls>>
scanVars == <<receipts, versions, installed, io>>
aggVars == <<fetched, executables, analytics, base, all, receipts, versions,
             installed, io>>
vars == <<pc, op, ret, kegs, formulae, casks, calls, fetched, executables,
          analytics, base, all, receipts, versions, installed, io>>

(***************************************************************************)
(* Bounds and input alphabets.                                             *)
(***************************************************************************)
MaxKegs == 3

FormulaNames == {<<"a">>, <<"b">>}
CaskTokens == {<<"a">>, <<"x">>}
ExitCodes == {0, 1}

SeqsUpTo(S, n) == UNION {[1..k -> S] : k \in 0..n}

(***************************************************************************)
(* Results (anyhow::Result).                                               *)
(***************************************************************************)
None == [tag |-> "none"]
Ok(v) == [tag |-> "Ok", value |-> v]
Err(m) == [tag |-> "Err", msg |-> m]
Unit == <<>>

\* An exchange with the outside world: whom it was with and the answer.
Exchange(src, resp) == [src |-> src, resp |-> resp]
NoExchange == Exchange("none", [ok |-> FALSE])

(***************************************************************************)
(* Store<T> (a map from identifier to T): a function on its key set.       *)
(***************************************************************************)
EmptyStore == <<>>
Keys(store) == DOMAIN store
Get(store, k) == IF k \in DOMAIN store THEN [some |-> TRUE, value |-> store[k]]
                 ELSE [some |-> FALSE]
\* Mutant: a key that is already present keeps its value (first wins).
Insert_keep(store, k, v) ==
    [x \in (DOMAIN store) \cup {k} |-> IF x \in DOMAIN store THEN store[x] ELSE v]

Insert(store, k, v) ==
    [x \in (DOMAIN store) \cup {k} |-> IF x = k THEN v ELSE store[x]]

\* State<F, C>: one store per kind.
MkState(f, c) == [formulae |-> f, casks |-> c]
EmptyState == MkState(EmptyStore, EmptyStore)

(***************************************************************************)
(* Keg: either a formula or a cask (models::Keg).  Only the identifier of  *)
(* the wrapped record is read by the orchestrator.                         *)
(***************************************************************************)
KegFormula(n) == [kind |-> "Formula", base |-> [name |-> n]]
KegCask(t) == [kind |-> "Cask", base |-> [token |-> t]]
Kegs == {KegFormula(n) : n \in FormulaNames} \cup {KegCask(t) : t \in CaskTokens}
Batches == SeqsUpTo(Kegs, MaxKegs)

(***************************************************************************)
(* split_kegs: one pass over the batch, pushing each keg onto the vector   *)
(* of its kind.                                                            *)
(***************************************************************************)
RECURSIVE split_kegs_loop(_, _, _, _)
split_kegs_loop(batch, i, fs, cs) ==
    IF i > Len(batch) THEN <<fs, cs>>
    ELSE IF batch[i].kind = "Formula"
         THEN split_kegs_loop(batch, i + 1, Append(fs, batch[i].base), cs)
         ELSE split_kegs_loop(batch, i + 1, fs, Append(cs, batch[i].base))

\* Mutant: each keg is put at the front of its vector instead of the back.
split_kegs_front(batch) ==
    LET parts == split_kegs_loop(batch, 1, <<>>, <<>>)
        Rev(s) == [i \in 1..Len(s) |-> s[Len(s) + 1 - i]]
    IN <<Rev(parts[1]), Rev(parts[2])>>

split_kegs(batch) == split_kegs_loop(batch, 1, <<>>, <<>>)

(***************************************************************************)
(* A run of the package manager: Command::status() either fails to spawn   *)
(* (an io::Error, propagated by `?`) or yields an exit status.             *)
(***************************************************************************)
SpawnError == [spawned |-> FALSE, code |-> -1]
Exited(c) == [spawned |-> TRUE, code |-> c]
Statuses == {SpawnError} \cup {Exited(c) : c \in ExitCodes}
success(st) == st.spawned /\ st.code = 0

\* Mutant: only the first formula is passed to the package manager.
FormulaArgs_first(fs) == IF fs = <<>> THEN <<>> ELSE <<fs[1].name>>

\* .args(formulae.into_iter().map(|f| f.base.name)); a partition holds the
\* kegs' payloads, so its element is the record that has `base` in the code.
FormulaArgs(fs) == [i \in 1..Len(fs) |-> fs[i].name]
CaskArgs(cs) == [i \in 1..Len(cs) |-> cs[i].token]

Call(verb, flag, args, st) ==
    [verb |-> verb, flag |-> flag, args |-> args, status |-> st]

\* Mutant: the exit status is not looked at.
Delegate_unchecked(verb, flag, args, st, msg, next) ==
    IF args = <<>>
    THEN /\ pc' = next
         /\ UNCHANGED <<ret, calls>>
    ELSE /\ calls' = Append(calls, Call(verb, flag, args, st))
         /\ IF ~st.spawned
            THEN pc' = "done" /\ ret' = Err("io error")
            ELSE pc' = next /\ UNCHANGED ret

\* Mutant: the command is run even when the partition is empty.
Delegate_always(verb, flag, args, st, msg, next) ==
    /\ calls' = Append(calls, Call(verb, flag, args, st))
    /\ IF ~st.spawned
       THEN pc' = "done" /\ ret' = Err("io error")
       ELSE IF ~success(st)
            THEN pc' = "done" /\ ret' = Err(msg)
            ELSE pc' = next /\ UNCHANGED ret

\* One `if !xs.is_empty() { status()?; if !success { return Err } }` block:
\* the next pc, result and call log after it.
Delegate(verb, flag, args, st, msg, next) ==
    IF args = <<>>
    THEN /\ pc' = next
         /\ UNCHANGED <<ret, calls>>
    ELSE /\ calls' = Append(calls, Call(verb, flag, args, st))
         /\ IF ~st.spawned
            THEN pc' = "done" /\ ret' = Err("io error")
            ELSE IF ~success(st)
                 THEN pc' = "done" /\ ret' = Err(msg)
                 ELSE pc' = next /\ UNCHANGED ret

(***************************************************************************)
(* Brew::install                                                           *)
(***************************************************************************)
Install ==
    /\ pc = "idle"
    /\ \E batch \in Batches :
          /\ op' = "install"
          /\ kegs' = batch
          /\ formulae' = split_kegs(batch)[1]
          /\ casks' = split_kegs(batch)[2]
    /\ pc' = "install_formulae"
    /\ UNCHANGED <<ret, calls, aggVars>>

InstallFormulae(st) ==
    /\ pc = "install_formulae"
    /\ Delegate("install", "--formulae", FormulaArgs(formulae), st,
                "failed to install formulae", "install_casks")
    /\ UNCHANGED <<op, kegs, formulae, casks, aggVars>>

\* Mutant: the cask block reports its failure with the formula block's message.
InstallCasks_formulaemsg(st) ==
    /\ pc = "install_casks"
    /\ Delegate("install", "--casks", CaskArgs(casks), st,
                "failed to install formulae", "install_ok")
    /\ UNCHANGED <<op, kegs, formulae, casks, aggVars>>

InstallCasks(st) ==
    /\ pc = "install_casks"
    /\ Delegate("install", "--casks", CaskArgs(casks), st,
                "failed to install casks", "install_ok")
    /\ UNCHANGED <<op, kegs, formulae, casks, aggVars>>

InstallOk ==
    /\ pc = "install_ok"
    /\ pc' = "done"
    /\ ret' = Ok(Unit)
    /\ UNCHANGED <<op, orchVars, aggVars>>

(***************************************************************************)
(* Brew::uninstall                                                         *)
(***************************************************************************)
Uninstall ==
    /\ pc = "idle"
    /\ \E batch \in Batches :
          /\ op' = "uninstall"
          /\ kegs' = batch
          /\ formulae' = split_kegs(batch)[1]
          /\ casks' = split_kegs(batch)[2]
    /\ pc' = "uninstall_formulae"
    /\ UNCHANGED <<ret, calls, aggVars>>

UninstallFormulae(st) ==
    /\ pc = "uninstall_formulae"
    /\ Delegate("uninstall", "--formulae", FormulaArgs(formulae), st,
                "failed to uninstall formulae", "uninstall_casks")
    /\ UNCHANGED <<op, kegs, formulae, casks, aggVars>>

UninstallCasks(st) ==
    /\ pc = "uninstall_casks"
    /\ Delegate("uninstall", "--casks", CaskArgs(casks), st,
                "failed to uninstall casks", "uninstall_ok")
    /\ UNCHANGED <<op, kegs, formulae, casks, aggVars>>

UninstallOk ==
    /\ pc = "uninstall_ok"
    /\ pc' = "done"
    /\ ret' = Ok(Unit)
    /\ UNCHANGED <<op, orchVars, aggVars>>

(***************************************************************************)
(* The orchestrator's specification: requests run one after another; a     *)
(* finished request's locals are dropped before the next one starts.       *)
(***************************************************************************)
Init ==
    /\ pc = "idle"
    /\ op = "none"
    /\ ret = None
    /\ kegs = <<>>
    /\ formulae = <<>>
    /\ casks = <<>>
    /\ calls = <<>>
    /\ fetched = NoExchange
    /\ executables = EmptyStore
    /\ analytics = EmptyStore
    /\ base = EmptyState
    /\ all = EmptyState
    /\ receipts = EmptyStore
    /\ versions = EmptyStore
    /\ installed = EmptyState
    /\ io = {}

Return ==
    /\ pc = "done"
    /\ pc' = "idle"
    /\ op' = "none"
    /\ ret' = None
    /\ kegs' = <<>>
    /\ formulae' = <<>>
    /\ casks' = <<>>
    /\ calls' = <<>>
    /\ fetched' = NoExchange
    /\ executables' = EmptyStore
    /\ analytics' = EmptyStore
    /\ base' = EmptyState
    /\ all' = EmptyState
    /\ receipts' = EmptyStore
    /\ versions' = EmptyStore
    /\ installed' = EmptyState
    /\ io' = {}

Next ==
    \/ Install
    \/ \E st \in Statuses : InstallFormulae(st)
    \/ \E st \in Statuses : InstallCasks(st)
    \/ InstallOk
    \/ Uninstall
    \/ \E st \in Statuses : UninstallFormulae(st)
    \/ \E st \in Statuses : UninstallCasks(st)
    \/ UninstallOk
    \/ Return

Spec == Init /\ [][Next]_vars

(***************************************************************************)
(* Brew::executables: fetch the registry text and parse it line by line.   *)
(* str::lines also drops a "\r" before a "\n"; such a "\r" can only end a   *)
(* line, where split_whitespace drops it too, so it is left out of Chars.  *)
(***************************************************************************)
MaxBody == 6
Chars == {"a", "(", ":", " ", "\n"}
Whitespace == {" ", "\n"}
Bodies == SeqsUpTo(Chars, MaxBody)

TransportError == [ok |-> FALSE]
Response(b) == [ok |-> TRUE, body |-> b]

\* str::lines: the pieces between "\n"s; a final "\n" starts no further line.
RECURSIVE lines_loop(_, _, _, _)
lines_loop(text, i, cur, acc) ==
    IF i > Len(text) THEN (IF cur = <<>> THEN acc ELSE Append(acc, cur))
    ELSE IF text[i] = "\n"
         THEN lines_loop(text, i + 1, <<>>, Append(acc, cur))
         ELSE lines_loop(text, i + 1, Append(cur, text[i]), acc)

lines(text) == lines_loop(text, 1, <<>>, <<>>)

\* str::find(char): the index of the first occurrence, 0 for None.
RECURSIVE find_from(_, _, _)
find_from(s, ch, i) ==
    IF i > Len(s) THEN 0
    ELSE IF s[i] = ch THEN i
    ELSE find_from(s, ch, i + 1)

find(s, ch) == find_from(s, ch, 1)

\* Mutant: the split is made at the last occurrence (rsplit_once).
split_once_last(s, ch) ==
    LET at == {i \in 1..Len(s) : s[i] = ch}
        i == CHOOSE k \in at : \A m \in at : m <= k
    IN IF at = {} THEN [some |-> FALSE]
       ELSE [some |-> TRUE, lhs |-> SubSeq(s, 1, i - 1),
             rhs |-> SubSeq(s, i + 1, Len(s))]

\* str::split_once(char)
split_once(s, ch) ==
    LET i == find(s, ch)
    IN IF i = 0 THEN [some |-> FALSE]
       ELSE [some |-> TRUE, lhs |-> SubSeq(s, 1, i - 1),
             rhs |-> SubSeq(s, i + 1, Len(s))]

\* rhs.split_whitespace().map(to_string).collect::<HashSet<String>>()
RECURSIVE split_whitespace_loop(_, _, _, _)
split_whitespace_loop(s, i, cur, acc) ==
    IF i > Len(s) THEN (IF cur = <<>> THEN acc ELSE acc \cup {cur})
    ELSE IF s[i] \in Whitespace
         THEN split_whitespace_loop(s, i + 1, <<>>,
                                    IF cur = <<>> THEN acc ELSE acc \cup {cur})
         ELSE split_whitespace_loop(s, i + 1, Append(cur, s[i]), acc)

split_whitespace(s) == split_whitespace_loop(s, 1, <<>>, {})

\* The loop over body.lines().filter(|l| !l.is_empty()).
RECURSIVE executables_loop(_, _, _)
executables_loop(ls, i, store) ==
    IF i > Len(ls) THEN store
    ELSE IF ls[i] = <<>> THEN executables_loop(ls, i + 1, store)
    ELSE LET sp == split_once(ls[i], ":")
         IN IF ~sp.some THEN executables_loop(ls, i + 1, store)
            ELSE LET index == find(sp.lhs, "(")
                 IN IF index = 0 THEN executables_loop(ls, i + 1, store)
                    ELSE executables_loop(ls, i + 1,
                            Insert(store, SubSeq(sp.lhs, 1, index - 1),
                                   split_whitespace(sp.rhs)))

Brew_executables(resp) ==
    IF ~resp.ok THEN Err("transport")
    ELSE Ok(executables_loop(lines(resp.body), 1, EmptyStore))

\* A call of Brew::executables on its own.
Responses == {TransportError} \cup {Response(b) : b \in Bodies}

Executables ==
    /\ pc = "idle"
    /\ \E resp \in Responses :
          /\ fetched' = Exchange("registry", resp)
          /\ ret' = Brew_executables(resp)
    /\ op' = "executables"
    /\ pc' = "done"
    /\ UNCHANGED <<orchVars, executables, analytics, base, all, scanVars>>

NextExecutables ==
    \/ Executables
    \/ Return

SpecExecutables == Init /\ [][NextExecutables]_vars

(***************************************************************************)
(* Inputs of the full-state build.                                         *)
(***************************************************************************)
\* MaxItems: records in one list of a fetched document.
\* MaxEntries: entries in one directory listing.
MaxItems == 2
MaxEntries == 2

Some(v) == [some |-> TRUE, value |-> v]
Nothing == [some |-> FALSE]

\* A fetched JSON document: malformed, or the value serde reads from it.
Malformed == [valid |-> FALSE]
Document(v) == [valid |-> TRUE, value |-> v]

BaseFormula(n, t) == [name |-> n, tap |-> t]
BaseCask(t, v) == [token |-> t, version |-> v]
PopItem(k, c) == [formula |-> k, count |-> c]

BaseFormulae == {BaseFormula(<<"a">>, <<"t">>), BaseFormula(<<"a">>, <<"u">>),
                 BaseFormula(<<"b">>, <<"t">>)}
BaseCasks == {BaseCask(<<"x">>, <<"1">>), BaseCask(<<"x">>, <<"2">>)}
PopItems == {PopItem(<<"a">>, 1), PopItem(<<"a">>, 2),
             PopItem(<<"t", "/", "a">>, 1)}
RegistryBodies == {<<>>, <<"a", "(", ":", "a", " ", "b">>,
                   <<"a", "(", ":", "a", "\n", "a", "(", ":", "b">>}

RegistryResponses == {TransportError} \cup {Response(b) : b \in RegistryBodies}
AnalyticsResponses ==
    {TransportError, Response(Malformed)}
        \cup {Response(Document([items |-> its])) : its \in SeqsUpTo(PopItems, MaxItems)}
EvalAllOutputs ==
    {TransportError, Response(Malformed)}
        \cup {Response(Document([formulae |-> fs, casks |-> cs])) :
                fs \in SeqsUpTo(BaseFormulae, MaxItems),
                cs \in SeqsUpTo(BaseCasks, MaxItems)}

(***************************************************************************)
(* Building a store from a stream of (key, value) pairs:                   *)
(* `for x in xs { store.insert(k, v) }` and `.map(..).collect()`.          *)
(***************************************************************************)
RECURSIVE collect_loop(_, _, _)
collect_loop(pairs, i, store) ==
    IF i > Len(pairs) THEN store
    ELSE collect_loop(pairs, i + 1, Insert(store, pairs[i][1], pairs[i][2]))

collect(pairs) == collect_loop(pairs, 1, EmptyStore)

\* The entries of a store as a stream, in the map's iteration order.
RECURSIVE into_iter(_)
into_iter(store) ==
    IF Keys(store) = {} THEN <<>>
    ELSE LET k == CHOOSE x \in Keys(store) : TRUE
         IN <<<<k, store[k]>>>>
              \o into_iter([x \in Keys(store) \ {k} |-> store[x]])

(***************************************************************************)
(* Brew::analytics                                                         *)
(***************************************************************************)
Brew_analytics(resp) ==
    IF ~resp.ok THEN Err("transport")
    ELSE IF ~resp.body.valid THEN Err("parse")
    ELSE LET items == resp.body.value.items
         IN Ok(collect([i \in 1..Len(items) |-> <<items[i].formula, items[i]>>]))

(***************************************************************************)
(* Brew::eval_all: the exit status of `brew info` is not looked at, only   *)
(* its stdout is parsed.                                                   *)
(***************************************************************************)
Brew_eval_all(out) ==
    IF ~out.ok THEN Err("io error")
    ELSE IF ~out.body.valid THEN Err("parse")
    ELSE LET fs == out.body.value.formulae
             cs == out.body.value.casks
         IN Ok(MkState(collect([i \in 1..Len(fs) |-> <<fs[i].name, fs[i]>>]),
                       collect([i \in 1..Len(cs) |-> <<cs[i].token, cs[i]>>])))

(***************************************************************************)
(* Brew::state, the enrichment of the base catalog (the closure of the     *)
(* formulae map and the casks map).                                        *)
(***************************************************************************)
\* format!("{}/{}", base.tap, base.name)
TapKey(b) == b.tap \o <<"/">> \o b.name

\* Mutant: the entry is emitted under its "tap/name" key.
enrich_formula_rekeyed(name, b, execs, pops) ==
    <<TapKey(b),
      [base |-> b,
       executables |-> IF Get(execs, name).some THEN Get(execs, name).value ELSE {},
       analytics |-> IF Get(pops, name).some THEN Some(Get(pops, name).value)
                     ELSE Get(pops, TapKey(b))]>>

\* Mutant: the "tap/name" key is tried before the identifier.
enrich_formula_tapfirst(name, b, execs, pops) ==
    <<name,
      [base |-> b,
       executables |-> IF Get(execs, name).some THEN Get(execs, name).value ELSE {},
       analytics |-> IF Get(pops, TapKey(b)).some THEN Get(pops, TapKey(b))
                     ELSE Get(pops, name)]>>

\* Mutant: the executables are looked up under the "tap/name" key.
enrich_formula_exectap(name, b, execs, pops) ==
    <<name,
      [base |-> b,
       executables |-> IF Get(execs, TapKey(b)).some THEN Get(execs, TapKey(b)).value
                       ELSE {},
       analytics |-> IF Get(pops, name).some THEN Some(Get(pops, name).value)
                     ELSE Get(pops, TapKey(b))]>>

enrich_formula(name, b, execs, pops) ==
    <<name,
      [base |-> b,
       executables |-> IF Get(execs, name).some THEN Get(execs, name).value ELSE {},
       analytics |-> IF Get(pops, name).some THEN Some(Get(pops, name).value)
                     ELSE Get(pops, TapKey(b))]>>

enrich_cask(name, b) == <<name, [base |-> b]>>

enrich(b, execs, pops) ==
    LET fs == into_iter(b.formulae)
        cs == into_iter(b.casks)
    IN MkState(
         collect([i \in 1..Len(fs) |-> enrich_formula(fs[i][1], fs[i][2], execs, pops)]),
         collect([i \in 1..Len(cs) |-> enrich_cask(cs[i][1], cs[i][2])]))

(***************************************************************************)
(* The file system under <prefix>: a directory listing is what read_dir    *)
(* yields, in its order; the names of one directory are distinct.          *)
(***************************************************************************)
ReadDirError == [ok |-> FALSE]
Listing(es) == [ok |-> TRUE, entries |-> es]

\* The INSTALL_RECEIPT.json of an entry of <prefix>/opt.
Missing == [exists |-> FALSE, json |-> FALSE, receipt |-> [installed_on_request |-> FALSE]]
Corrupt == [exists |-> TRUE, json |-> FALSE, receipt |-> [installed_on_request |-> FALSE]]
Valid(r) == [exists |-> TRUE, json |-> TRUE, receipt |-> r]

OptEntry(n, f) == [name |-> n, file |-> f]
OptEntries ==
    {OptEntry(<<".", "h">>, Missing),
     OptEntry(<<"a">>, Valid([installed_on_request |-> TRUE])),
     OptEntry(<<"a">>, Missing),
     OptEntry(<<"a">>, Corrupt),
     OptEntry(<<"b">>, Corrupt),
     OptEntry(<<"c">>, Valid([installed_on_request |-> TRUE]))}

\* An entry of <prefix>/Caskroom: its own listing, when it can be read.
CaskEntry(n, l) == [name |-> n, dir |-> l]
VersionEntry(n) == [name |-> n]
CaskEntries ==
    {CaskEntry(<<"x">>, Listing(<<VersionEntry(<<"1">>)>>)),
     CaskEntry(<<"x">>, Listing(<<VersionEntry(<<".", "m">>), VersionEntry(<<"2">>)>>)),
     CaskEntry(<<"x">>, ReadDirError),
     CaskEntry(<<"z">>, Listing(<<VersionEntry(<<"1">>)>>))}

DistinctNames(es) == \A i, j \in DOMAIN es : es[i].name = es[j].name => i = j
Listings(E) ==
    {ReadDirError}
        \cup {Listing(es) : es \in {x \in SeqsUpTo(E, MaxEntries) : DistinctNames(x)}}

ReadDir(d, n) == [op |-> "read_dir", dir |-> d, name |-> n]
OpenReceipt(n) == [op |-> "open", dir |-> "opt", name |-> n]

\* Mutant: a name counts as hidden when it ends with '.'.
is_dotfile_suffix(name) == name # <<>> /\ name[Len(name)] = "."

\* Brew::is_dotfile: name.starts_with('.')
is_dotfile(name) == name # <<>> /\ name[1] = "."

(***************************************************************************)
(* Brew::eval_installed_formulae_receipts: the result and the file-system  *)
(* accesses made.                                                          *)
(***************************************************************************)
Scanned(r, log) == [ret |-> r, io |-> log]

RECURSIVE receipts_loop(_, _, _, _)
receipts_loop(es, i, store, log) ==
    IF i > Len(es) THEN Scanned(Ok(store), log)
    ELSE IF is_dotfile(es[i].name) THEN receipts_loop(es, i + 1, store, log)
    ELSE LET opened == log \cup {OpenReceipt(es[i].name)}
         IN IF ~es[i].file.exists THEN Scanned(Err("io error"), opened)
            ELSE IF ~es[i].file.json THEN Scanned(Err("parse"), opened)
            ELSE receipts_loop(es, i + 1,
                               Insert(store, es[i].name, es[i].file.receipt), opened)

\* Mutant: an entry whose receipt cannot be read is skipped.
RECURSIVE receipts_loop_skip(_, _, _, _)
receipts_loop_skip(es, i, store, log) ==
    IF i > Len(es) THEN Scanned(Ok(store), log)
    ELSE IF is_dotfile(es[i].name) THEN receipts_loop_skip(es, i + 1, store, log)
    ELSE LET opened == log \cup {OpenReceipt(es[i].name)}
         IN IF ~es[i].file.exists \/ ~es[i].file.json
            THEN receipts_loop_skip(es, i + 1, store, opened)
            ELSE receipts_loop_skip(es, i + 1,
                    Insert(store, es[i].name, es[i].file.receipt), opened)

eval_installed_formulae_receipts_skip(opt) ==
    IF ~opt.ok THEN Scanned(Err("io error"), {ReadDir("opt", <<>>)})
    ELSE receipts_loop_skip(opt.entries, 1, EmptyStore, {ReadDir("opt", <<>>)})

eval_installed_formulae_receipts(opt) ==
    IF ~opt.ok THEN Scanned(Err("io error"), {ReadDir("opt", <<>>)})
    ELSE receipts_loop(opt.entries, 1, EmptyStore, {ReadDir("opt", <<>>)})

(***************************************************************************)
(* Brew::eval_installed_casks_versions                                     *)
(***************************************************************************)
RECURSIVE versions_of(_, _, _)
versions_of(es, i, vs) ==
    IF i > Len(es) THEN vs
    ELSE IF is_dotfile(es[i].name) THEN versions_of(es, i + 1, vs)
    ELSE versions_of(es, i + 1, vs \cup {es[i].name})

RECURSIVE versions_loop(_, _, _, _)
versions_loop(es, i, store, log) ==
    IF i > Len(es) THEN Scanned(Ok(store), log)
    ELSE LET read == log \cup {ReadDir("Caskroom", es[i].name)}
         IN IF ~es[i].dir.ok THEN Scanned(Err("io error"), read)
            ELSE versions_loop(es, i + 1,
                    Insert(store, es[i].name, versions_of(es[i].dir.entries, 1, {})),
                    read)

eval_installed_casks_versions(caskroom) ==
    IF ~caskroom.ok THEN Scanned(Err("io error"), {ReadDir("Caskroom", <<>>)})
    ELSE versions_loop(caskroom.entries, 1, EmptyStore, {ReadDir("Caskroom", <<>>)})

(***************************************************************************)
(* Brew::eval_installed_formulae and Brew::eval_installed_casks: the join  *)
(* of a raw scan store with the catalog.                                   *)
(***************************************************************************)
\* Mutant: a scan entry with no catalog entry is kept, with no upstream.
join_keep(scan, store, local) ==
    LET es == into_iter(scan)
    IN collect([i \in 1..Len(es) |->
            <<es[i][1], (local :> es[i][2]) @@ [upstream |-> Get(store, es[i][1])]>>])

\* Mutant: the upstream of an installed entry is rebuilt from the base record
\* alone, without the catalog entry's other fields.
join_baseonly(scan, store, local) ==
    LET es == into_iter(scan)
        kept == SelectSeq(es, LAMBDA e : Get(store, e[1]).some)
    IN collect([i \in 1..Len(kept) |->
            <<kept[i][1],
              (local :> kept[i][2]) @@ [upstream |-> [base |-> store[kept[i][1]].base]]>>])

\* for (name, x) in scan { let Some(u) = store.get(&name) else { continue };
\*                         installed.insert(name, {upstream: u, <local>: x}) }
RECURSIVE join_loop(_, _, _, _, _)
join_loop(es, i, store, local, acc) ==
    IF i > Len(es) THEN acc
    ELSE IF ~Get(store, es[i][1]).some THEN join_loop(es, i + 1, store, local, acc)
    ELSE join_loop(es, i + 1, store, local,
            Insert(acc, es[i][1],
                   (local :> es[i][2]) @@ [upstream |-> Get(store, es[i][1]).value]))

join(scan, store, local) == join_loop(into_iter(scan), 1, store, local, EmptyStore)

(***************************************************************************)
(* Brew::state, step by step: each step is one exchange with the outside   *)
(* world (a fetch, a subprocess, a directory scan) and the code up to the  *)
(* next one.                                                               *)
(***************************************************************************)
StateExecutables ==
    /\ pc = "idle"
    /\ \E resp \in RegistryResponses :
          LET r == Brew_executables(resp)
          IN /\ fetched' = Exchange("registry", resp)
             /\ IF r.tag = "Err"
                THEN ret' = r /\ pc' = "done" /\ UNCHANGED executables
                ELSE executables' = r.value /\ pc' = "state_analytics"
                     /\ UNCHANGED ret
    /\ op' = "state"
    /\ UNCHANGED <<orchVars, analytics, base, all, scanVars>>

\* Mutant: a failed popularity fetch is replaced by an empty store.
StateAnalytics_lenient ==
    /\ pc = "state_analytics"
    /\ \E resp \in AnalyticsResponses :
          LET r == Brew_analytics(resp)
          IN /\ fetched' = Exchange("analytics", resp)
             /\ analytics' = IF r.tag = "Err" THEN EmptyStore ELSE r.value
             /\ pc' = "state_eval_all"
             /\ UNCHANGED ret
    /\ UNCHANGED <<op, orchVars, executables, base, all, scanVars>>

StateAnalytics ==
    /\ pc = "state_analytics"
    /\ \E resp \in AnalyticsResponses :
          LET r == Brew_analytics(resp)
          IN /\ fetched' = Exchange("analytics", resp)
             /\ IF r.tag = "Err"
                THEN ret' = r /\ pc' = "done" /\ UNCHANGED analytics
                ELSE analytics' = r.value /\ pc' = "state_eval_all"
                     /\ UNCHANGED ret
    /\ UNCHANGED <<op, orchVars, executables, base, all, scanVars>>

StateEvalAll ==
    /\ pc = "state_eval_all"
    /\ \E out \in EvalAllOutputs :
          LET r == Brew_eval_all(out)
          IN /\ fetched' = Exchange("eval_all", out)
             /\ IF r.tag = "Err"
                THEN ret' = r /\ pc' = "done" /\ UNCHANGED <<base, all>>
                ELSE /\ base' = r.value
                     /\ all' = enrich(r.value, executables, analytics)
                     /\ pc' = "installed_formulae"
                     /\ UNCHANGED ret
    /\ UNCHANGED <<op, orchVars, executables, analytics, scanVars>>

(***************************************************************************)
(* Brew::installed, called by Brew::state or on its own with a catalog     *)
(* built earlier.                                                          *)
(***************************************************************************)
CatalogOf(fs, cs) ==
    enrich(Brew_eval_all(Response(Document([formulae |-> fs, casks |-> cs]))).value,
           EmptyStore, EmptyStore)
Catalogs ==
    {CatalogOf(<<>>, <<>>),
     CatalogOf(<<BaseFormula(<<"a">>, <<"t">>)>>, <<BaseCask(<<"x">>, <<"1">>)>>),
     CatalogOf(<<BaseFormula(<<"b">>, <<"t">>)>>, <<>>)}

Installed ==
    /\ pc = "idle"
    /\ \E cat \in Catalogs : all' = cat
    /\ op' = "installed"
    /\ pc' = "installed_formulae"
    /\ UNCHANGED <<ret, orchVars, fetched, executables, analytics, base, scanVars>>

InstalledFormulae ==
    /\ pc = "installed_formulae"
    /\ \E opt \in Listings(OptEntries) :
          LET sc == eval_installed_formulae_receipts(opt)
          IN /\ fetched' = Exchange("opt", opt)
             /\ io' = io \cup sc.io
             /\ IF sc.ret.tag = "Err"
                THEN ret' = sc.ret /\ pc' = "done" /\ UNCHANGED <<receipts, installed>>
                ELSE /\ receipts' = sc.ret.value
                     /\ installed' = [installed EXCEPT
                            !.formulae = join(sc.ret.value, all.formulae, "receipt")]
                     /\ pc' = "installed_casks"
                     /\ UNCHANGED ret
    /\ UNCHANGED <<op, orchVars, executables, analytics, base, all, versions>>

InstalledCasks ==
    /\ pc = "installed_casks"
    /\ \E caskroom \in Listings(CaskEntries) :
          LET sc == eval_installed_casks_versions(caskroom)
          IN /\ fetched' = Exchange("Caskroom", caskroom)
             /\ io' = io \cup sc.io
             /\ IF sc.ret.tag = "Err"
                THEN ret' = sc.ret /\ pc' = "done" /\ UNCHANGED <<versions, installed>>
                ELSE /\ versions' = sc.ret.value
                     /\ installed' = [installed EXCEPT
                            !.casks = join(sc.ret.value, all.casks, "versions")]
                     /\ pc' = "installed_ok"
                     /\ UNCHANGED ret
    /\ UNCHANGED <<op, orchVars, executables, analytics, base, all, receipts>>

\* Ok(State { formulae, casks }) of installed, and for Brew::state the final
\* State of {all, installed} per kind.
InstalledOk ==
    /\ pc = "installed_ok"
    /\ ret' = IF op = "state"
              THEN Ok(MkState([all |-> all.formulae, installed |-> installed.formulae],
                              [all |-> all.casks, installed |-> installed.casks]))
              ELSE Ok(installed)
    /\ pc' = "done"
    /\ UNCHANGED <<op, orchVars, aggVars>>

NextState ==
    \/ StateExecutables
    \/ StateAnalytics
    \/ StateEvalAll
    \/ Installed
    \/ InstalledFormulae
    \/ InstalledCasks
    \/ InstalledOk
    \/ Return

SpecState == Init /\ [][NextState]_vars

(***************************************************************************)
(* Properties of the orchestrator.                                         *)
(***************************************************************************)
Count(s, x) == Cardinality({i \in DOMAIN s : s[i] = x})
Failed(c) == c.status.spawned /\ c.status.code # 0
FormulaeMsg == IF op = "install" THEN "failed to install formulae"
               ELSE "failed to uninstall formulae"
\* The identifiers of the batch's kegs of one kind, in batch order.
IdsOfKind(batch, kind) ==
    LET sel == SelectSeq(batch, LAMBDA k : k.kind = kind)
    IN [i \in 1..Len(sel) |->
            IF kind = "Formula" THEN sel[i].base.name ELSE sel[i].base.token]
FlagOfKind(kind) == IF kind = "Formula" THEN "--formulae" ELSE "--casks"

\* C1: once the formula delegation of an install or uninstall request has
\* exited non-zero, the request has ended with the failure "failed to
\* install formulae" / "failed to uninstall formulae" and no cask delegation
\* has been or is ever made in it.
C1_FormulaFailureBlocksCasks ==
    \A i \in DOMAIN calls :
        (calls[i].flag = "--formulae" /\ Failed(calls[i])) =>
            /\ formulae # <<>>
            /\ pc = "done"
            /\ ret = Err(FormulaeMsg)
            /\ \A j \in DOMAIN calls : calls[j].flag # "--casks"

C1_Witness ==
    /\ pc = "done"
    /\ kegs = <<KegFormula(<<"a">>), KegCask(<<"x">>), KegFormula(<<"b">>)>>
    /\ Len(calls) = 1
    /\ calls[1].flag = "--formulae"
    /\ Failed(calls[1])

\* C2: in every request the formula delegation comes before the cask
\* delegation, each kind is delegated at most once, and a delegation is one
\* call of the request's verb whose arguments are all the identifiers of
\* that kind in the batch, in batch order.
C2_FormulaeBeforeCasksOnceGrouped ==
    /\ \A i, j \in DOMAIN calls :
          (calls[i].flag = "--formulae" /\ calls[j].flag = "--casks") => i < j
    /\ \A i, j \in DOMAIN calls : calls[i].flag = calls[j].flag => i = j
    /\ \A i \in DOMAIN calls :
          /\ calls[i].verb = op
          /\ \E kind \in {"Formula", "Cask"} :
                /\ calls[i].flag = FlagOfKind(kind)
                /\ calls[i].args = IdsOfKind(kegs, kind)

C2_Witness ==
    /\ Len(kegs) = 3
    /\ kegs[1].kind = "Cask"
    /\ kegs[2].kind = "Formula"
    /\ kegs[3].kind = "Formula"
    /\ kegs[2] # kegs[3]
    /\ Len(calls) = 2
    /\ calls[1].flag = "--formulae"
    /\ calls[2].flag = "--casks"

\* C3: a kind with no keg in the batch is never delegated, and a request
\* with an empty batch ends with success and without any delegation.
C3_EmptyPartitionNotDelegated ==
    /\ \A kind \in {"Formula", "Cask"} :
          IdsOfKind(kegs, kind) = <<>> =>
              \A i \in DOMAIN calls : calls[i].flag # FlagOfKind(kind)
    /\ (kegs = <<>> /\ pc = "done") => (ret = Ok(Unit) /\ calls = <<>>)

C3_Witness ==
    /\ pc = "done"
    /\ op = "uninstall"
    /\ kegs = <<>>
    /\ ret = Ok(Unit)

IsIncreasing(f) == \A i, j \in DOMAIN f : i < j => f[i] < f[j]

\* C10: split_kegs puts every keg of the batch into the sequence of its
\* kind and no other, as often as it occurs in the batch, and each sequence
\* keeps the batch's relative order.
C10_SplitKegsPartition ==
    op # "none" =>
        /\ \A n \in FormulaNames :
              Count(formulae, [name |-> n]) = Count(kegs, KegFormula(n))
        /\ \A t \in CaskTokens :
              Count(casks, [token |-> t]) = Count(kegs, KegCask(t))
        /\ Len(formulae) + Len(casks) = Len(kegs)
        /\ \A i \in DOMAIN formulae : formulae[i] \in {[name |-> n] : n \in FormulaNames}
        /\ \A i \in DOMAIN casks : casks[i] \in {[token |-> t] : t \in CaskTokens}
        /\ \E f \in [DOMAIN formulae -> DOMAIN kegs] :
              /\ IsIncreasing(f)
              /\ \A i \in DOMAIN formulae : kegs[f[i]] = KegFormula(formulae[i].name)
        /\ \E f \in [DOMAIN casks -> DOMAIN kegs] :
              /\ IsIncreasing(f)
              /\ \A i \in DOMAIN casks : kegs[f[i]] = KegCask(casks[i].token)

C10_Witness ==
    /\ kegs = <<KegFormula(<<"b">>), KegCask(<<"x">>), KegFormula(<<"a">>)>>
    /\ formulae = <<[name |-> <<"b">>], [name |-> <<"a">>]>>
    /\ casks = <<[token |-> <<"x">>]>>

(***************************************************************************)
(* Properties of the registry parser, stated on the text itself.           *)
(***************************************************************************)
\* text[i..j] is a non-empty line of text.
IsLineAt(text, i, j) ==
    /\ i <= j
    /\ \A k \in i..j : text[k] # "\n"
    /\ (i = 1 \/ text[i - 1] = "\n")
    /\ (j = Len(text) \/ text[j + 1] = "\n")
LineSpans(text) ==
    {sp \in (1..Len(text)) \X (1..Len(text)) : IsLineAt(text, sp[1], sp[2])}
LineOf(text, sp) == SubSeq(text, sp[1], sp[2])
Positions(s, ch) == {k \in 1..Len(s) : s[k] = ch}
First(S) == CHOOSE k \in S : \A m \in S : k <= m
HasColon(l) == Positions(l, ":") # {}
LhsOf(l) == SubSeq(l, 1, First(Positions(l, ":")) - 1)
RhsOf(l) == SubSeq(l, First(Positions(l, ":")) + 1, Len(l))
HasParen(l) == Positions(LhsOf(l), "(") # {}
BeforeParen(s) ==
    IF Positions(s, "(") = {} THEN s ELSE SubSeq(s, 1, First(Positions(s, "(")) - 1)
\* The maximal runs of non-blank characters of s.
Tokens(s) ==
    {SubSeq(s, a, b) : <<a, b>> \in
        {ab \in (1..Len(s)) \X (1..Len(s)) :
            /\ ab[1] <= ab[2]
            /\ \A k \in ab[1]..ab[2] : s[k] # " "
            /\ (ab[1] = 1 \/ s[ab[1] - 1] = " ")
            /\ (ab[2] = Len(s) \/ s[ab[2] + 1] = " ")}}
ParsedAlone == op = "executables" /\ pc = "done" /\ fetched.resp.ok

\* The store that the lines accepted by Accept give, each line mapping the
\* text before the first "(" of its left-hand side to the tokens of its
\* right-hand side, a later line replacing an earlier one with its identifier.
StoreOfLines(text, store, Accept(_)) ==
    LET spans == {sp \in LineSpans(text) : Accept(LineOf(text, sp))}
        Id(sp) == BeforeParen(LhsOf(LineOf(text, sp)))
    IN /\ Keys(store) = {Id(sp) : sp \in spans}
       /\ \A sp \in spans :
             (\A later \in spans : Id(later) = Id(sp) => later[1] <= sp[1]) =>
                 store[Id(sp)] = Tokens(RhsOf(LineOf(text, sp)))

\* C8 as stated: every non-empty line that has a colon maps the text before
\* the first "(" of its left-hand side to the tokens of its right-hand side;
\* only a line without a colon is skipped; parsing returns no error.
C8_Original_EveryColonLineMapped ==
    ParsedAlone =>
        /\ ret.tag = "Ok"
        /\ StoreOfLines(fetched.resp.body, ret.value, HasColon)

\* C8 (amended): every non-empty line that has a colon and a "(" before its
\* first colon maps the text before that "(" to the set of blank-separated
\* tokens after the first colon; a line without a colon, or without a "("
\* before its first colon, is skipped; parsing returns no error.
C8_ParenLinesMapped ==
    ParsedAlone =>
        /\ ret.tag = "Ok"
        /\ StoreOfLines(fetched.resp.body, ret.value,
                        LAMBDA l : HasColon(l) /\ HasParen(l))

C8_Witness ==
    /\ ParsedAlone
    /\ fetched.resp.body = <<"a", ":", "\n", "(", ":", "a">>
    /\ ret = Ok(Insert(EmptyStore, <<>>, {<<"a">>}))

(***************************************************************************)
(* Properties of the state build.                                          *)
(***************************************************************************)
\* The enriched catalog of a running Brew::state has been built.
Enriched == op = "state" /\ pc \in {"installed_formulae", "installed_casks",
                                     "installed_ok", "done"}
                          /\ fetched.src \in {"eval_all", "opt", "Caskroom"}
                          /\ (fetched.src = "eval_all" => ret = None)
Hidden(name) == Len(name) > 0 /\ Head(name) = "."
BadReceipt(e) == ~(e.file.exists /\ e.file.json)

\* C4: the keys of each installed store are keys of the `all` store of its
\* kind; a scan entry whose key is not in `all` is not in `installed`, and
\* a scan that ends with an error does so because the directory or one of
\* its scanned entries could not be read, not because of such an entry.
C4_InstalledWithinAll ==
    /\ Keys(installed.formulae) \subseteq Keys(all.formulae)
    /\ Keys(installed.casks) \subseteq Keys(all.casks)
    /\ \A k \in Keys(receipts) \ Keys(all.formulae) : k \notin Keys(installed.formulae)
    /\ \A k \in Keys(versions) \ Keys(all.casks) : k \notin Keys(installed.casks)
    /\ (pc = "done" /\ ret.tag = "Err" /\ fetched.src = "opt") =>
          \/ ~fetched.resp.ok
          \/ \E i \in DOMAIN fetched.resp.entries :
                /\ ~Hidden(fetched.resp.entries[i].name)
                /\ BadReceipt(fetched.resp.entries[i])
    /\ (pc = "done" /\ ret.tag = "Err" /\ fetched.src = "Caskroom") =>
          \/ ~fetched.resp.ok
          \/ \E i \in DOMAIN fetched.resp.entries : ~fetched.resp.entries[i].dir.ok

C4_Witness ==
    /\ op = "state"
    /\ pc = "done"
    /\ ret.tag = "Ok"
    /\ <<"c">> \in Keys(receipts) \ Keys(all.formulae)
    /\ <<"a">> \in Keys(installed.formulae)
    /\ <<"z">> \in Keys(versions) \ Keys(all.casks)
    /\ <<"x">> \in Keys(installed.casks)

\* C5: the enriched formula catalog has the key set of the base formula
\* catalog, the enriched cask catalog has the key set of the base cask
\* catalog, and each enriched cask holds its base record unchanged; the
\* same holds of the `all` stores of the State returned.
C5_EnrichmentKeepsKeys ==
    Enriched =>
        /\ Keys(all.formulae) = Keys(base.formulae)
        /\ Keys(all.casks) = Keys(base.casks)
        /\ \A k \in Keys(base.casks) : all.casks[k] = [base |-> base.casks[k]]
        /\ (pc = "done" /\ ret.tag = "Ok") =>
              /\ Keys(ret.value.formulae.all) = Keys(base.formulae)
              /\ Keys(ret.value.casks.all) = Keys(base.casks)
              /\ \A k \in Keys(base.casks) :
                    ret.value.casks.all[k] = [base |-> base.casks[k]]

C5_Witness ==
    /\ Enriched
    /\ pc = "done"
    /\ ret.tag = "Ok"
    /\ Keys(base.formulae) = {<<"a">>, <<"b">>}
    /\ Keys(base.casks) = {<<"x">>}
    /\ Keys(executables) = {<<"a">>}
    /\ Keys(analytics) = {<<"t", "/", "a">>}

\* C6: the popularity of the enriched formula of identifier n and tap t is
\* the popularity store's record under n if it has one, else its record
\* under t/n if it has one, else absent.
C6_PopularityLookup ==
    Enriched =>
        \A n \in Keys(base.formulae) :
            LET t == base.formulae[n].tap
                fallback == Append(t, "/") \o n
                got == all.formulae[n].analytics
            IN /\ n \in Keys(analytics) => got = Some(analytics[n])
               /\ (n \notin Keys(analytics) /\ fallback \in Keys(analytics)) =>
                     got = Some(analytics[fallback])
               /\ (n \notin Keys(analytics) /\ fallback \notin Keys(analytics)) =>
                     got = Nothing

C6_Witness ==
    /\ Enriched
    /\ Keys(analytics) = {<<"t", "/", "a">>}
    /\ <<"a">> \in Keys(base.formulae)
    /\ base.formulae[<<"a">>].tap = <<"t">>
    /\ all.formulae[<<"a">>].analytics = Some(PopItem(<<"t", "/", "a">>, 1))

\* C7: the executables of an enriched formula are the registry's set under
\* the formula's identifier, or the empty set when the registry has no such
\* key; once the catalog has been fetched and parsed the build goes on to
\* the installed scan whatever the registry and the popularity store hold.
C7_ExecutablesLookupNeverFails ==
    /\ Enriched =>
          \A n \in Keys(base.formulae) :
              all.formulae[n].executables =
                  IF n \in Keys(executables) THEN executables[n] ELSE {}
    /\ (op = "state" /\ fetched.src = "eval_all" /\ fetched.resp.ok
            /\ fetched.resp.body.valid) =>
          (pc = "installed_formulae" /\ ret = None)

C7_Witness ==
    /\ Enriched
    /\ pc = "installed_formulae"
    /\ Keys(executables) = {<<"a">>}
    /\ Keys(analytics) = {}
    /\ Keys(base.formulae) = {<<"a">>, <<"b">>}
    /\ all.formulae[<<"a">>].executables = {<<"a">>, <<"b">>}
    /\ all.formulae[<<"b">>].executables = {}
    /\ all.formulae[<<"b">>].analytics = Nothing

\* C9: in the receipts scan no receipt is opened for an entry whose name
\* begins with '.', and no store entry is made for it; every other entry up
\* to the first one whose receipt cannot be read has its receipt opened, and
\* a scan that succeeds yields exactly the entries that are not hidden.
C9_HiddenEntriesNotRead ==
    (fetched.src = "opt" /\ fetched.resp.ok) =>
        LET es == fetched.resp.entries
            Stopped(i) == \E j \in 1..(i - 1) : ~Hidden(es[j].name) /\ BadReceipt(es[j])
        IN /\ \A i \in DOMAIN es :
                Hidden(es[i].name) =>
                    /\ OpenReceipt(es[i].name) \notin io
                    /\ es[i].name \notin Keys(receipts)
           /\ \A i \in DOMAIN es :
                (~Hidden(es[i].name) /\ ~Stopped(i)) => OpenReceipt(es[i].name) \in io
           /\ pc = "installed_casks" =>
                /\ Keys(receipts) = {es[i].name : i \in {j \in DOMAIN es : ~Hidden(es[j].name)}}
                /\ \A i \in DOMAIN es :
                      ~Hidden(es[i].name) => receipts[es[i].name] = es[i].file.receipt

C9_Witness ==
    /\ pc = "installed_casks"
    /\ fetched.src = "opt"
    /\ fetched.resp.ok
    /\ Len(fetched.resp.entries) = 2
    /\ fetched.resp.entries[1].name = <<".", "h">>
    /\ Keys(receipts) = {<<"a">>}
    /\ io = {ReadDir("opt", <<>>), OpenReceipt(<<"a">>)}

(***************************************************************************)
(* Further properties of the orchestrator.                                 *)
(***************************************************************************)
\* The failure message of a delegation, by verb and partition flag.
FailureMsg(verb, flag) ==
    CASE verb = "install" /\ flag = "--formulae" -> "failed to install formulae"
      [] verb = "install" /\ flag = "--casks" -> "failed to install casks"
      [] verb = "uninstall" /\ flag = "--formulae" -> "failed to uninstall formulae"
      [] verb = "uninstall" /\ flag = "--casks" -> "failed to uninstall casks"

\* C11: a delegated call that exits non-zero ends the request with the
\* failure "failed to <verb> <partition>" of its own verb and partition; in
\* particular a failed cask call, made after the formula partition succeeded
\* or was empty, gives "failed to install casks" / "failed to uninstall
\* casks"; a request that returns success has made no call that failed.
C11_FailureLabelledByPartition ==
    /\ \A i \in DOMAIN calls :
          Failed(calls[i]) =>
              /\ pc = "done"
              /\ ret = Err(FailureMsg(op, calls[i].flag))
              /\ calls[i].verb = op
              /\ i = Len(calls)
    /\ \A i \in DOMAIN calls :
          (calls[i].flag = "--casks" /\ Failed(calls[i])) =>
              /\ \A j \in 1..(i - 1) : success(calls[j].status)
              /\ ret = Err(IF op = "install" THEN "failed to install casks"
                           ELSE "failed to uninstall casks")
    /\ (pc = "done" /\ ret.tag = "Ok" /\ op \in {"install", "uninstall"}) =>
          \A i \in DOMAIN calls : success(calls[i].status)

C11_Witness ==
    /\ pc = "done"
    /\ op = "install"
    /\ Len(calls) = 2
    /\ calls[1].flag = "--formulae"
    /\ success(calls[1].status)
    /\ calls[2].flag = "--casks"
    /\ Failed(calls[2])
    /\ ret = Err("failed to install casks")

(***************************************************************************)
(* Failures of the state build.                                            *)
(***************************************************************************)
\* The latest exchange was one of the three fetches of Brew::state and it
\* failed in transport or in parsing.
FetchFailed ==
    /\ op = "state"
    /\ fetched.src \in {"registry", "analytics", "eval_all"}
    /\ \/ ~fetched.resp.ok
       \/ (fetched.src # "registry" /\ ~fetched.resp.body.valid)
ScanStarted ==
    \/ io # {}
    \/ receipts # EmptyStore
    \/ versions # EmptyStore
    \/ installed # EmptyState

\* C12: when the registry, popularity or catalog fetch of Brew::state fails
\* in transport or parsing, the request has ended with an Err, which holds
\* no State, and no directory has been read and no installed store built.
C12_FetchFailureIsFatal ==
    FetchFailed =>
        /\ pc = "done"
        /\ ret.tag = "Err"
        /\ ~ScanStarted

C12_Witness ==
    /\ FetchFailed
    /\ fetched.src = "eval_all"
    /\ fetched.resp.ok
    /\ Keys(executables) # {}
    /\ Keys(analytics) # {}
    /\ pc = "done"
    /\ ret = Err("parse")

\* C13: when an entry of the receipts root that is not hidden has a missing
\* or unparseable receipt, the installed build (on its own or inside
\* Brew::state) has ended with an Err: no receipts store and no installed
\* formula store exist, whatever valid receipts the root holds, and the
\* Caskroom has not been read.
C13_BadReceiptIsFatal ==
    (fetched.src = "opt" /\ fetched.resp.ok
        /\ \E i \in DOMAIN fetched.resp.entries :
              /\ ~Hidden(fetched.resp.entries[i].name)
              /\ BadReceipt(fetched.resp.entries[i])) =>
        /\ pc = "done"
        /\ ret.tag = "Err"
        /\ receipts = EmptyStore
        /\ installed = EmptyState
        /\ versions = EmptyStore
        /\ \A a \in io : a.dir # "Caskroom"

C13_Witness ==
    /\ op = "state"
    /\ pc = "done"
    /\ ret.tag = "Err"
    /\ fetched.src = "opt"
    /\ fetched.resp.ok
    /\ Len(fetched.resp.entries) = 2
    /\ fetched.resp.entries[1].name = <<"a">>
    /\ ~BadReceipt(fetched.resp.entries[1])
    /\ fetched.resp.entries[2].name = <<"b">>
    /\ BadReceipt(fetched.resp.entries[2])
    /\ <<"a">> \in Keys(all.formulae)
    /\ installed = EmptyState

(***************************************************************************)
(* Stores built from record streams.                                       *)
(***************************************************************************)
\* store holds, for each key of the stream, the value of the last pair with
\* that key, and nothing else.
LastWins(ks, vs, store) ==
    /\ Keys(store) = {ks[i] : i \in DOMAIN ks}
    /\ \A i \in DOMAIN ks :
          (\A j \in DOMAIN ks : ks[j] = ks[i] => j <= i) => store[ks[i]] = vs[i]
GoodDocument(src) ==
    op = "state" /\ fetched.src = src /\ fetched.resp.ok /\ fetched.resp.body.valid

\* C14: the popularity store, the base formula store, the base cask store
\* and the executables store each hold, for every identifier of the records
\* they were built from, the value of the last record with that identifier,
\* and no other key.
C14_StoreLastWins ==
    /\ GoodDocument("analytics") =>
          LET items == fetched.resp.body.value.items
          IN LastWins([i \in DOMAIN items |-> items[i].formula], items, analytics)
    /\ GoodDocument("eval_all") =>
          LET fs == fetched.resp.body.value.formulae
              cs == fetched.resp.body.value.casks
          IN /\ LastWins([i \in DOMAIN fs |-> fs[i].name], fs, base.formulae)
             /\ LastWins([i \in DOMAIN cs |-> cs[i].token], cs, base.casks)
    /\ (op = "state" /\ fetched.src = "registry" /\ fetched.resp.ok) =>
          StoreOfLines(fetched.resp.body, executables,
                       LAMBDA l : HasColon(l) /\ HasParen(l))

C14_Witness ==
    /\ GoodDocument("analytics")
    /\ fetched.resp.body.value.items = <<PopItem(<<"a">>, 1), PopItem(<<"a">>, 2)>>
    /\ analytics = Insert(EmptyStore, <<"a">>, PopItem(<<"a">>, 2))
    /\ executables = Insert(EmptyStore, <<"a">>, {<<"b">>})

\* C15: in the State returned by Brew::state every installed entry holds, as
\* upstream, the entry of the returned `all` store under its key and, as
\* local record, the raw scan's receipt (formulae) or version set (casks)
\* under its key.
C15_InstalledRefersToAll ==
    (op = "state" /\ pc = "done" /\ ret.tag = "Ok") =>
        /\ \A k \in Keys(ret.value.formulae.installed) :
              /\ k \in Keys(ret.value.formulae.all)
              /\ ret.value.formulae.installed[k].upstream = ret.value.formulae.all[k]
              /\ ret.value.formulae.all[k] = all.formulae[k]
              /\ ret.value.formulae.installed[k].receipt = receipts[k]
        /\ \A k \in Keys(ret.value.casks.installed) :
              /\ k \in Keys(ret.value.casks.all)
              /\ ret.value.casks.installed[k].upstream = ret.value.casks.all[k]
              /\ ret.value.casks.all[k] = all.casks[k]
              /\ ret.value.casks.installed[k].versions = versions[k]

C15_Witness ==
    /\ op = "state"
    /\ pc = "done"
    /\ ret.tag = "Ok"
    /\ <<"a">> \in Keys(ret.value.formulae.installed)
    /\ ret.value.formulae.installed[<<"a">>].upstream.executables = {<<"a">>, <<"b">>}
    /\ ret.value.formulae.installed[<<"a">>].upstream.analytics # Nothing
    /\ ret.value.formulae.installed[<<"a">>].receipt = [installed_on_request |-> TRUE]
    /\ <<"x">> \in Keys(ret.value.casks.installed)
    /\ ret.value.casks.installed[<<"x">>].versions = {<<"2">>}

====
